---- MODULE Spec2Model ----
(***************************************************************************)
(* A model of the relational-algebra engine of rel/relation.py and         *)
(* rel/structure.py: Attribute, MappingTuple, Relation and the operators   *)
(* project, select, rename, product, join, equi_join, inner_join and       *)
(* candidate_keys.                                                         *)
(*                                                                         *)
(* Python values are modelled as records:                                  *)
(*   a value            [type |-> "int", v |-> 1]                          *)
(*   an Attribute       [type |-> "int", name |-> "a"]                     *)
(*   a MappingTuple     [fields |-> << <<"a", value>>, ... >>]  (sorted)   *)
(*   a Relation         [attributes |-> set, tuples |-> set]               *)
(*   None               [none |-> TRUE]                                    *)
(*   a raised exception [raise |-> "TypeError"]                            *)
(* A call whose outcome depends on the iteration order of a Python set     *)
(* (which the language leaves open) is modelled by the SET of its possible *)
(* outcomes; the actions choose one of them.                               *)
(***************************************************************************)
EXTENDS Integers, Sequences, FiniteSets, TLC

\* Bounds of the model: the largest header and body of a relation the
\* program is given, and the largest that is kept for further calls.
MaxOrder == 3
MaxCard == 2

Names == {"a", "b", "c"}
Types == {"int", "str"}
\* The order in which sorted() places the attribute names.
NameIndex == [a |-> 1, b |-> 2, c |-> 3]
\* The order in which sorted() places values (Python 2 orders values of
\* different types by the name of the type).
TypeIndex == [int |-> 1, str |-> 2]
Values == {[type |-> "int", v |-> 1], [type |-> "int", v |-> 2], [type |-> "str", v |-> 1]}

None == [none |-> TRUE]
Raise(e) == [raise |-> e]
IsRaise(x) == "raise" \in DOMAIN x
IsNone(x) == "none" \in DOMAIN x
IsRelation(x) == "attributes" \in DOMAIN x

Range(s) == {s[i] : i \in DOMAIN s}

(***************************************************************************)
(* rel/relation.py: in_domain, Attribute                                   *)
(***************************************************************************)
isinstance(value, domain) == value.type = domain

in_domain(value, domain) == isinstance(value, domain)

Attribute(t, name) == [type |-> t, name |-> name]

Attribute_in_domain(attr, v) == in_domain(v, attr.type)

Attribute_rename(attr, to) ==
    IF to = attr.name THEN attr ELSE Attribute(attr.type, to)

(***************************************************************************)
(* rel/structure.py: MappingTuple                                          *)
(***************************************************************************)
\* The order of two (key, value) pairs under Python's tuple comparison.
PairLess(p, q) ==
    \/ NameIndex[p[1]] < NameIndex[q[1]]
    \/ /\ p[1] = q[1]
       /\ \/ TypeIndex[p[2].type] < TypeIndex[q[2].type]
          \/ p[2].type = q[2].type /\ p[2].v < q[2].v

\* s is sorted: p goes after the pairs that are smaller.
Insert(p, s) ==
    LET k == Cardinality({i \in DOMAIN s : PairLess(s[i], p)})
    IN  SubSeq(s, 1, k) \o <<p>> \o SubSeq(s, k + 1, Len(s))

RECURSIVE sorted(_)
sorted(d) == IF d = <<>> THEN <<>> ELSE Insert(Head(d), sorted(Tail(d)))

\* A set of pairs in some order of iteration (sorted() makes the order
\* immaterial).
RECURSIVE SeqOfSet(_)
SeqOfSet(S) ==
    IF S = {} THEN <<>>
    ELSE LET x == CHOOSE y \in S : TRUE IN <<x>> \o SeqOfSet(S \ {x})

_check_duplicates(f) ==
    IF Len(f) = 0 THEN FALSE
    ELSE LET keys == [i \in DOMAIN f |-> f[i][1]]
         IN  Cardinality(Range(keys)) # Len(keys)

\* MappingTuple(d) for d a Mapping: a TLA+ function from names to values.
MappingTupleOfMapping(d) ==
    [fields |-> sorted(SeqOfSet({<<k, d[k]>> : k \in DOMAIN d}))]

\* MappingTuple(d) for d any other iterable of pairs, given as a sequence.
MappingTuple(d) ==
    LET f == sorted(d)
    IN  IF _check_duplicates(f) THEN Raise("RuntimeError") ELSE [fields |-> f]

Empty == MappingTuple(<<>>)

MappingTuple_len(t) == Len(t.fields)

MappingTuple_keys(t) == {t.fields[i][1] : i \in DOMAIN t.fields}

\* names holds attribute names (strings, which have no attribute "name").
MappingTuple_project(t, names) ==
    LET fixed_names == names
    IN  IF Cardinality(fixed_names) = 0 THEN Empty
        ELSE MappingTuple(SelectSeq(t.fields, LAMBDA p : p[1] \in fixed_names))

\* dict.get(k, k) on a mapping given as a function from names to names.
Get(mapping, k) == IF k \in DOMAIN mapping THEN mapping[k] ELSE k

MappingTuple_process_rename(t, mapping) ==
    [i \in DOMAIN t.fields |-> <<Get(mapping, t.fields[i][1]), t.fields[i][2]>>]

MappingTuple_rename(t, mapping) ==
    MappingTuple(MappingTuple_process_rename(t, mapping))

MappingTuple_union(t, other) ==
    IF t = Empty THEN other
    ELSE IF other = Empty THEN t
    ELSE MappingTuple(SeqOfSet(Range(t.fields \o other.fields)))

(***************************************************************************)
(* rel/relation.py: the names the module and the class Relation define     *)
(***************************************************************************)
\* The global names of rel/relation.py: its imports and its definitions.
relation_globals ==
    {"collections", "itertools", "sympy", "exc", "MappingTuple", "values",
     "to_values_notation", "in_domain", "tuple_in_domain", "Attribute",
     "_BaseRelation", "Relation", "_et", "Dee", "Doe"}

\* The attributes of a Relation instance: those of _BaseRelation and Relation.
Relation_members ==
    {"_attributes", "_tuples", "__init__", "_parse_attr", "_parse_tuples",
     "_check_tuples", "tuples", "attributes", "attribute_names", "cardinality",
     "order", "__len__", "__eq__", "attribute", "project", "select",
     "_process_rename", "rename", "product", "__repr__", "attributes_disjoint",
     "_join_tuples_naturally_on", "_join_tuples_on", "equi_join", "inner_join",
     "join", "_is_candidate_key", "candidate_keys"}

\* The exception classes of rel/exc.py (the error taxonomy).
exc_members ==
    {"InvalidTuple", "ValueOutsideDomain", "DuplicateKey", "UnsupportedPredicate"}

\* The parameters of Relation._join_tuples_on, self included.
_join_tuples_on_params == <<"self", "other", "on">>

(***************************************************************************)
(* rel/relation.py: _BaseRelation                                          *)
(***************************************************************************)
cardinality(self) == Cardinality(self.tuples)

order(self) == Cardinality(self.attributes)

\* The names of the header, as a set (attribute_names lists them in the
\* header's order of iteration).
attribute_names(self) == {a.name : a \in self.attributes}

Relation__eq__(self, other) ==
    self.attributes = other.attributes /\ self.tuples = other.tuples

\* attribute(name) returns the first attribute of that name in the header's
\* order of iteration. An order of iteration is given by the attribute it
\* puts first for each name: any such choice comes from some order.
Lookups(attributes) ==
    LET names == {a.name : a \in attributes}
    IN  {first \in [names -> attributes] : \A n \in names : first[n].name = n}

attribute(first, name) == IF name \in DOMAIN first THEN first[name] ELSE None

\* An item of the attributes argument: an Attribute, or a (type, name) pair
\* ([pair |-> <<t, n>>]).
_parse_attr(attributes) ==
    {IF "pair" \in DOMAIN attr THEN Attribute(attr.pair[1], attr.pair[2]) ELSE attr
     : attr \in attributes}

\* An item of the tuples argument: a MappingTuple, a Mapping ([dict |-> f]),
\* another iterable of pairs ([iterable |-> seq]), or the exception that
\* producing the item raises ([raise |-> e], from a generator).
_parse_tuple(t) ==
    IF "fields" \in DOMAIN t \/ "raise" \in DOMAIN t THEN t
    ELSE IF "dict" \in DOMAIN t THEN MappingTupleOfMapping(t.dict)
    ELSE MappingTuple(t.iterable)

\* _check_tuple without the comparison of len(t) with nattr.
_check_tuple_no_arity(attributes, first, t) ==
    LET bad == {i \in DOMAIN t.fields :
                   LET a == attribute(first, t.fields[i][1])
                   IN  IsNone(a) \/ ~Attribute_in_domain(a, t.fields[i][2])}
    IN  IF bad = {} THEN None
        ELSE LET i == CHOOSE j \in bad : \A k \in bad : j <= k
             IN  IF IsNone(attribute(first, t.fields[i][1]))
                 THEN Raise("AttributeError") ELSE Raise("NameError")

\* What _check_tuples does with one tuple: None when the tuple passes.
_check_tuple(attributes, first, t) ==
    LET nattr == Cardinality(attributes)
        bad == {i \in DOMAIN t.fields :
                   LET a == attribute(first, t.fields[i][1])
                   IN  IsNone(a) \/ ~Attribute_in_domain(a, t.fields[i][2])}
    IN  IF MappingTuple_len(t) # nattr
        THEN IF "InvalidTuple" \in exc_members
             THEN Raise("InvalidTuple") ELSE Raise("AttributeError")
        ELSE IF bad = {} THEN None
        ELSE LET i == CHOOSE j \in bad : \A k \in bad : j <= k
             IN  IF IsNone(attribute(first, t.fields[i][1]))
                 THEN Raise("AttributeError")
                 ELSE IF "ValueOutsideDomain" \in relation_globals
                      THEN Raise("ValueOutsideDomain") ELSE Raise("NameError")

\* The possible outcomes of _check_tuples: {None}, or what the first failing
\* tuple raises (the body is a set: any failing tuple may come first).
_check_tuples(attributes, tuples) ==
    UNION {LET raised == {_check_tuple(attributes, first, t) : t \in tuples} \ {None}
           IN  IF raised = {} THEN {None} ELSE raised
           : first \in Lookups(attributes)}

\* The possible outcomes of Relation(attributes, tuples): the relation, or an
\* exception. An item of attributes that is no Attribute and no pair (None)
\* fails to unpack.
Relation(attributes, tuples) ==
    IF None \in attributes THEN {Raise("TypeError")}
    ELSE LET attrs == _parse_attr(attributes)
             parsed == {_parse_tuple(t) : t \in tuples}
             raised == {t \in parsed : IsRaise(t)}
         IN  IF raised # {} THEN raised
             ELSE {IF IsNone(c) THEN [attributes |-> attrs, tuples |-> parsed] ELSE c
                   : c \in _check_tuples(attrs, parsed)}

_et == <<>>

Dee == CHOOSE r \in Relation({}, {[iterable |-> _et]}) : TRUE

Doe == CHOOSE r \in Relation({}, {}) : TRUE

\* project with the test of the cardinality inverted.
project_inverted(self, names) ==
    IF Cardinality(names) = 0
    THEN {IF cardinality(self) # 0 THEN Doe ELSE Dee}
    ELSE LET nt == {MappingTuple_project(t, names) : t \in self.tuples}
         IN  UNION {Relation({attribute(first, name) : name \in names}, nt)
                    : first \in Lookups(self.attributes)}

project(self, names) ==
    IF Cardinality(names) = 0
    THEN {IF cardinality(self) = 0 THEN Doe ELSE Dee}
    ELSE LET nt == {MappingTuple_project(t, names) : t \in self.tuples}
         IN  UNION {Relation({attribute(first, name) : name \in names}, nt)
                    : first \in Lookups(self.attributes)}

(***************************************************************************)
(* select: the predicates. A predicate is None, a bool, an int, a str, a   *)
(* function (lambda t: t[key] == 1) or a sympy expression                  *)
(* (Symbol(symbol) - 1).                                                   *)
(***************************************************************************)
Exprs ==
    {[kind |-> "NoneType"], [kind |-> "bool", val |-> 1], [kind |-> "bool", val |-> 0],
     [kind |-> "int", val |-> 0], [kind |-> "int", val |-> 1], [kind |-> "int", val |-> 2],
     [kind |-> "str"],
     [kind |-> "function", key |-> "a"], [kind |-> "function", key |-> "b"],
     [kind |-> "sympy.Expr", symbol |-> "a"]}

\* expr == True and expr == False: True == 1 and False == 0 in Python.
EqTrue(expr) == expr.kind \in {"bool", "int"} /\ expr.val = 1

EqFalse(expr) == expr.kind \in {"bool", "int"} /\ expr.val = 0

callable(expr) == expr.kind = "function"

MappingTuple__getitem__(t, name) ==
    LET at == {i \in DOMAIN t.fields : t.fields[i][1] = name}
    IN  IF at = {} THEN Raise("KeyError")
        ELSE t.fields[CHOOSE i \in at : TRUE][2]

\* expr(t) for the function lambda t: t[key] == 1.
Call(expr, t) ==
    LET v == MappingTuple__getitem__(t, expr.key)
    IN  IF IsRaise(v) THEN v ELSE [bool |-> v = [type |-> "int", v |-> 1]]

\* The truth of expr.subs(t.items()) for Symbol(symbol) - 1: false when the
\* substitution leaves 1 - 1, true for any other value (and for what is
\* left of the expression when t has no such key).
Subs(expr, t) ==
    LET v == MappingTuple__getitem__(t, expr.symbol)
    IN  [bool |-> IsRaise(v) \/ v # [type |-> "int", v |-> 1]]

\* The items of the generator (t for t in self.tuples if ...): the rows that
\* pass, and what the test raises.
Test(expr, t) == IF callable(expr) THEN Call(expr, t) ELSE Subs(expr, t)

Filter(tuples, expr) ==
    {t \in tuples : ~IsRaise(Test(expr, t)) /\ Test(expr, t).bool}
        \cup {Test(expr, t) : t \in {u \in tuples : IsRaise(Test(expr, u))}}

\* select with False treated like None and True.
select_false_as_true(self, expr) ==
    IF expr.kind = "NoneType" \/ EqTrue(expr) \/ EqFalse(expr) THEN {self}
    ELSE IF callable(expr)
         THEN Relation(self.attributes, Filter(self.tuples, expr))
    ELSE IF isinstance([type |-> expr.kind], "sympy.Expr")
         THEN Relation(self.attributes, Filter(self.tuples, expr))
    ELSE {None}

select(self, expr) ==
    IF expr.kind = "NoneType" \/ EqTrue(expr) THEN {self}
    ELSE IF EqFalse(expr) THEN Relation(self.attributes, {})
    ELSE IF callable(expr)
         THEN Relation(self.attributes, Filter(self.tuples, expr))
    ELSE IF isinstance([type |-> expr.kind], "sympy.Expr")
         THEN Relation(self.attributes, Filter(self.tuples, expr))
    ELSE {None}

\* A rename that leaves the header as it is.
_process_rename_header_kept(self, mapping) ==
    self.attributes

_process_rename(self, mapping) ==
    {Attribute_rename(a, Get(mapping, a.name)) : a \in self.attributes}

rename(self, mapping) ==
    LET attr == _process_rename(self, mapping)
        tuples == {MappingTuple_rename(t, mapping) : t \in self.tuples}
    IN  Relation(attr, tuples)

product(self, other) ==
    IF Relation__eq__(other, Dee) THEN {self}
    ELSE IF cardinality(other) = 0 THEN Relation(self.attributes, {})
    ELSE LET attr == self.attributes \cup other.attributes
             body == {MappingTuple_union(a, b) : a \in self.tuples, b \in other.tuples}
         IN  Relation(attr, body)

(***************************************************************************)
(* rel/relation.py: Relation                                               *)
(***************************************************************************)
attributes_disjoint(self, other) ==
    /\ self.attributes # other.attributes
    /\ \A a \in self.attributes : a \notin other.attributes

\* Binding the arguments of a call self._join_tuples_on(args): Python raises
\* TypeError when their number is not the number of parameters.
_join_tuples_on_bind(args) ==
    IF Len(args) + 1 # Len(_join_tuples_on_params) THEN Raise("TypeError") ELSE None

\* The body of _join_tuples_on, for a call that binds: the unpacking of
\* zip(on) into two names fails unless on has two elements.
_join_tuples_on(self, other, on) ==
    IF Cardinality(on) # 2 THEN {Raise("ValueError")}
    ELSE {MappingTuple_union(l, r) : l \in self.tuples, r \in other}

inner_join(self, other, on) ==
    UNION {IF IsRelation(p) THEN select(p, on) ELSE {p} : p \in product(self, other)}

\* on is a list of pairs of names.
equi_join(self, other, on) ==
    IF Len(on) = 0 THEN product(self, other)
    ELSE LET attributes == self.attributes \cup other.attributes
             args == <<self.tuples, other, on>>
             bound == _join_tuples_on_bind(args)
         IN  IF IsRaise(bound) THEN {bound}
             ELSE Relation(attributes, _join_tuples_on(self, args[1], Range(args[2])))

join(self, other) ==
    IF attributes_disjoint(self, other) THEN product(self, other)
    ELSE LET attributes == self.attributes \cup other.attributes
             common == self.attributes \cap other.attributes
             args == <<self.tuples, other.tuples, common>>
             bound == _join_tuples_on_bind(args)
         IN  IF IsRaise(bound) THEN {bound}
             ELSE Relation(attributes, _join_tuples_on(self, args[1], args[2]))

\* self.projection(key) is looked up on the instance before anything else
\* of the comparison is evaluated.
_is_candidate_key(self, key) ==
    LET orig == Cardinality(self.tuples)
    IN  IF "projection" \notin Relation_members THEN Raise("AttributeError")
        ELSE [bool |-> \E p \in project(self, Range(key)) :
                           IsRelation(p) /\ cardinality(p) = orig]

\* itertools.combinations(names, r), in the order it yields them.
RECURSIVE combinations(_, _)
combinations(names, r) ==
    IF r = 0 THEN << <<>> >>
    ELSE IF Len(names) < r THEN <<>>
    ELSE LET with == combinations(Tail(names), r - 1)
         IN  [i \in DOMAIN with |-> <<Head(names)>> \o with[i]]
                 \o combinations(Tail(names), r)

\* The orders in which a set can be iterated.
RECURSIVE Orders(_)
Orders(S) ==
    IF S = {} THEN {<<>>}
    ELSE UNION {{<<x>> \o s : s \in Orders(S \ {x})} : x \in S}

\* The keys the loops of candidate_keys test, in order.
RECURSIVE keys_to_test(_, _, _)
keys_to_test(names, i, n) ==
    IF i >= n THEN <<>>
    ELSE combinations(names, i) \o keys_to_test(names, i + 1, n)

\* The generator run to its end or to the exception that ends it:
\* [yielded |-> the keys, in order, raised |-> None or the exception].
RECURSIVE run_candidate_keys(_, _, _)
run_candidate_keys(self, keys, yielded) ==
    IF keys = <<>> THEN [yielded |-> yielded, raised |-> None]
    ELSE LET is == _is_candidate_key(self, Head(keys))
         IN  IF IsRaise(is) THEN [yielded |-> yielded, raised |-> is]
             ELSE run_candidate_keys(self, Tail(keys),
                     IF is.bool THEN Append(yielded, Head(keys)) ELSE yielded)

candidate_keys(self) ==
    {LET names == [i \in DOMAIN ord |-> ord[i].name]
     IN  run_candidate_keys(self, keys_to_test(names, 1, order(self)), <<names>>)
     : ord \in Orders(self.attributes)}

(***************************************************************************)
(* The program: a relation is constructed from its input, and operators    *)
(* are then called on the relation the program holds.                      *)
(***************************************************************************)
VARIABLES
    self,    \* the relation the program holds (what its construction raised, if it failed)
    call,    \* the last call: its name, its receiver and its arguments
    result   \* what the last call returned or raised

vars == <<self, call, result>>

\* The subsets of S of at most k elements.
RECURSIVE UpTo(_, _)
UpTo(S, k) ==
    IF k = 0 THEN {{}}
    ELSE LET smaller == UpTo(S, k - 1)
         IN  smaller \cup {T \cup {x} : T \in smaller, x \in S}

\* The inputs of the constructor, valid or not: the attributes (given to it
\* as (type, name) pairs) and the rows (given to it as dicts).
\* Every name as an int attribute, and one name as a str attribute as well.
AttributeUniverse ==
    {Attribute("int", n) : n \in Names} \cup {Attribute("str", "a")}

Rows == UNION {[K -> Values] : K \in SUBSET Names}

Headers == UpTo(AttributeUniverse, MaxOrder)

Bodies == UpTo(Rows, MaxCard)

\* The bounds of the second operand of product and of the joins.
OtherMaxOrder == 1
OtherMaxCard == 1

Others ==
    {r \in UNION {Relation({[pair |-> <<a.type, a.name>>] : a \in h}, {[dict |-> d] : d \in b})
                  : h \in UpTo(AttributeUniverse, OtherMaxOrder), b \in UpTo(Rows, OtherMaxCard)}
       : IsRelation(r)}

\* The mappings given to rename: dicts from names to names, either of at
\* most MaxRenamed keys or one-to-one on all the names.
MaxRenamed == 2

Mappings ==
    {m \in UNION {[K -> Names] : K \in SUBSET Names} :
        \/ Cardinality(DOMAIN m) <= MaxRenamed
        \/ DOMAIN m = Names /\ \A j, k \in Names : m[j] = m[k] => j = k}

\* The on argument of equi_join: a list of pairs of names.
Ons == {<<>>, << <<"a", "b">> >>}

\* The on argument of inner_join: a predicate.
InnerOns == {[kind |-> "bool", val |-> 1], [kind |-> "function", key |-> "a"], [kind |-> "str"]}

\* The relation the program goes on with after a call.
Keep(old, r) ==
    IF IsRelation(r) /\ order(r) <= MaxOrder /\ cardinality(r) <= MaxCard THEN r ELSE old

Init ==
    \E attributes \in Headers, tuples \in Bodies :
        \E r \in Relation({[pair |-> <<a.type, a.name>>] : a \in attributes},
                          {[dict |-> d] : d \in tuples}) :
            /\ self = r
            /\ call = [op |-> "Relation", attributes |-> attributes, tuples |-> tuples]
            /\ result = r

Project(names) ==
    /\ IsRelation(self)
    /\ \E r \in project(self, names) :
        /\ call' = [op |-> "project", self |-> self, names |-> names]
        /\ result' = r
        /\ self' = Keep(self, r)

Select(expr) ==
    /\ IsRelation(self)
    /\ \E r \in select(self, expr) :
        /\ call' = [op |-> "select", self |-> self, expr |-> expr]
        /\ result' = r
        /\ self' = Keep(self, r)

Rename(mapping) ==
    /\ IsRelation(self)
    /\ \E r \in rename(self, mapping) :
        /\ call' = [op |-> "rename", self |-> self, mapping |-> mapping]
        /\ result' = r
        /\ self' = Keep(self, r)

Product(other) ==
    /\ IsRelation(self)
    /\ \E r \in product(self, other) :
        /\ call' = [op |-> "product", self |-> self, other |-> other]
        /\ result' = r
        /\ self' = Keep(self, r)

Join(other) ==
    /\ IsRelation(self)
    /\ \E r \in join(self, other) :
        /\ call' = [op |-> "join", self |-> self, other |-> other]
        /\ result' = r
        /\ self' = Keep(self, r)

EquiJoin(other, on) ==
    /\ IsRelation(self)
    /\ \E r \in equi_join(self, other, on) :
        /\ call' = [op |-> "equi_join", self |-> self, other |-> other, on |-> on]
        /\ result' = r
        /\ self' = Keep(self, r)

InnerJoin(other, on) ==
    /\ IsRelation(self)
    /\ \E r \in inner_join(self, other, on) :
        /\ call' = [op |-> "inner_join", self |-> self, other |-> other, on |-> on]
        /\ result' = r
        /\ self' = Keep(self, r)

CandidateKeys ==
    /\ IsRelation(self)
    /\ \E r \in candidate_keys(self) :
        /\ call' = [op |-> "candidate_keys", self |-> self]
        /\ result' = r
        /\ UNCHANGED self

Next ==
    \/ \E names \in SUBSET Names : Project(names)
    \/ \E expr \in Exprs : Select(expr)
    \/ \E mapping \in Mappings : Rename(mapping)
    \/ \E other \in Others \cup {self} : Product(other)
    \/ \E other \in Others \cup {self} : Join(other)
    \/ \E other \in Others \cup {self}, on \in Ons : EquiJoin(other, on)
    \/ \E other \in Others \cup {self}, on \in InnerOns : InnerJoin(other, on)
    \/ CandidateKeys

Spec == Init /\ [][Next]_vars

(***************************************************************************)
(* What the properties below speak of                                      *)
(***************************************************************************)
\* The two relations of order zero.
TrueRelation == [attributes |-> {}, tuples |-> {[fields |-> <<>>]}]

FalseRelation == [attributes |-> {}, tuples |-> {}]

\* The (name, value) pairs of a row, and of its restriction to the names K.
PairsOf(t) == Range(t.fields)

Restricted(t, K) == {p \in PairsOf(t) : p[1] \in K}

\* The two invariants of a body: every row has exactly the header's names
\* as keys, and every value lies in the domain of the attribute of its name.
BodyInvariants(r) ==
    \A t \in r.tuples :
        /\ {p[1] : p \in PairsOf(t)} = {a.name : a \in r.attributes}
        /\ \A p \in PairsOf(t) : \A a \in r.attributes :
               a.name = p[1] => p[2].type = a.type

\* The number of rows of the projection of r onto the names K.
ProjectionCardinality(r, K) == Cardinality({Restricted(t, K) : t \in r.tuples})

\* C1: every relation that comes into existence, by construction or as the
\* result of project, select, rename, product, join, equi_join or inner_join,
\* satisfies both invariants of a body.
C1_BodyInvariants ==
    /\ IsRelation(result) => BodyInvariants(result)
    /\ IsRelation(self) => BodyInvariants(self)

\* A product of two non-empty relations over different headers came into
\* existence, with rows.
C1_Witness ==
    /\ call.op = "product"
    /\ IsRelation(result)
    /\ result.tuples # {}
    /\ result.attributes # call.self.attributes
    /\ result.attributes # call.other.attributes

\* C2: R.project([]) is the TRUE-relation when R has rows and the
\* FALSE-relation when it has none.
C2_ProjectEmpty ==
    (call.op = "project" /\ call.names = {}) =>
        result = IF Cardinality(call.self.tuples) > 0 THEN TrueRelation ELSE FalseRelation

\* A relation of order 2 with two rows was projected onto no attribute.
C2_Witness ==
    /\ call.op = "project"
    /\ call.names = {}
    /\ Cardinality(call.self.attributes) = 2
    /\ Cardinality(call.self.tuples) = 2
    /\ result = TrueRelation

\* C3: R.project(R.attribute_names) is a relation equal to R, for every
\* relation R.
C3_ProjectIdentity ==
    (call.op = "project" /\ call.names = {a.name : a \in call.self.attributes}) =>
        /\ IsRelation(result)
        /\ result.attributes = call.self.attributes
        /\ result.tuples = call.self.tuples

\* C3 for the relations whose header holds no two attributes of one name:
\* there the projection onto the relation's own names is the relation.
C3_ProjectIdentityDistinctNames ==
    (/\ call.op = "project"
     /\ Cardinality({a.name : a \in call.self.attributes})
            = Cardinality(call.self.attributes))
        => C3_ProjectIdentity

\* C4: R.select(None) and R.select(True) are R, and R.select(False) is a
\* relation with the header of R and no rows.
C4_SelectConstant ==
    call.op = "select" =>
        /\ call.expr \in {[kind |-> "NoneType"], [kind |-> "bool", val |-> 1]} =>
               result = call.self
        /\ call.expr = [kind |-> "bool", val |-> 0] =>
               /\ IsRelation(result)
               /\ result.attributes = call.self.attributes
               /\ Cardinality(result.tuples) = 0

\* select(False) was called on a relation with rows.
C4_Witness ==
    /\ call.op = "select"
    /\ call.expr = [kind |-> "bool", val |-> 0]
    /\ Cardinality(call.self.tuples) = 2
    /\ IsRelation(result)
    /\ result.tuples = {}

\* Some row given to the constructor has a number of keys that is not the
\* number of attributes.
ArityMismatch(c) ==
    \E d \in c.tuples : Cardinality(DOMAIN d) # Cardinality(c.attributes)

\* Some row given to the constructor has a value outside the domain of the
\* attribute of that name.
OutsideDomain(c) ==
    \E d \in c.tuples : \E k \in DOMAIN d :
        /\ \E a \in c.attributes : a.name = k
        /\ \A a \in c.attributes : a.name = k => d[k].type # a.type

\* C5: construction fails with InvalidTuple when a row has the wrong number
\* of keys and with ValueOutsideDomain when a value is outside its
\* attribute's domain (with either, when rows of both kinds are given), and
\* no relation is then created.
C5_ConstructionErrors ==
    (call.op = "Relation" /\ (ArityMismatch(call) \/ OutsideDomain(call))) =>
        /\ ~IsRelation(self)
        /\ result \in (IF ArityMismatch(call) THEN {Raise("InvalidTuple")} ELSE {})
                 \cup (IF OutsideDomain(call) THEN {Raise("ValueOutsideDomain")} ELSE {})

\* The body of the natural join: the unions of the pairs of rows that agree
\* on every attribute common to both headers.
NaturalJoinBody(A, B) ==
    LET common == {a.name : a \in A.attributes \cap B.attributes}
    IN  {[fields |-> sorted(SeqOfSet(PairsOf(a) \cup PairsOf(b)))]
         : <<a, b>> \in {<<x, y>> \in A.tuples \X B.tuples :
                            Restricted(x, common) = Restricted(y, common)}}

\* C6: for A and B whose headers share an attribute, A.join(B) is the
\* relation over the union of the headers whose body is the unions of the
\* pairs of rows that agree on every common attribute.
C6_NaturalJoin ==
    (call.op = "join" /\ call.self.attributes \cap call.other.attributes # {}) =>
        /\ IsRelation(result)
        /\ result.attributes = call.self.attributes \cup call.other.attributes
        /\ result.tuples = NaturalJoinBody(call.self, call.other)

\* The non-empty proper subsets of the names of r.
ProperKeys(r) ==
    LET names == {a.name : a \in r.attributes}
    IN  {K \in SUBSET names : K # {} /\ K # names}

\* The keys a run of candidate_keys yielded, as sets of names.
YieldedKeys(res) == {Range(res.yielded[i]) : i \in DOMAIN res.yielded}

\* C7: enumerating R.candidate_keys ends without an error, and a non-empty
\* proper subset K of R's names is yielded exactly when the projection of
\* R onto K has as many rows as R.
C7_CandidateKeys ==
    call.op = "candidate_keys" =>
        /\ IsNone(result.raised)
        /\ \A K \in ProperKeys(call.self) :
               K \in YieldedKeys(result)
                   <=> ProjectionCardinality(call.self, K) = Cardinality(call.self.tuples)

\* Every single attribute of r tells its rows apart.
EveryAttributeUnique(r) ==
    \A a \in r.attributes :
        ProjectionCardinality(r, {a.name}) = Cardinality(r.tuples)

\* C8: every key candidate_keys yields is minimal: no non-empty proper
\* subset of it has a projection with as many rows as R. In particular, for
\* a relation of order 3 in which every single attribute is unique across
\* the rows, the keys yielded are exactly the single-attribute keys.
C8_MinimalKeys ==
    call.op = "candidate_keys" =>
        /\ \A K \in YieldedKeys(result) : \A J \in SUBSET K :
               (J # {} /\ J # K) =>
                   ProjectionCardinality(call.self, J) # Cardinality(call.self.tuples)
        /\ (Cardinality(call.self.attributes) = 3 /\ EveryAttributeUnique(call.self)) =>
               YieldedKeys(result) = {{a.name} : a \in call.self.attributes}

\* C9: select fails with UnsupportedPredicate for a predicate that is not
\* None, a bool, a callable or a symbolic expression.
C9_UnsupportedPredicate ==
    (call.op = "select" /\ call.expr.kind \in {"int", "str"}) =>
        result = Raise("UnsupportedPredicate")

\* C10: for S without rows, R.product(S) is a relation without rows whose
\* header is the union of the headers of R and S.
C10_ProductNullLaw ==
    (call.op = "product" /\ Cardinality(call.other.tuples) = 0) =>
        /\ IsRelation(result)
        /\ result.tuples = {}
        /\ result.attributes = call.self.attributes \cup call.other.attributes

\* A mapping that sends no two names to the same name.
Injective(m) == \A j, k \in DOMAIN m : m[j] = m[k] => j = k

\* The mapping that undoes an injective mapping.
Inverse(m) == [n \in Range(m) |-> CHOOSE k \in DOMAIN m : m[k] = n]

\* C11: for an injective mapping m whose keys include every attribute name of
\* R, R.rename(m) is a relation of the cardinality of R, and renaming it by
\* the inverse of m gives a relation equal to R.
C11_RenameRoundTrip ==
    (/\ call.op = "rename"
     /\ Injective(call.mapping)
     /\ attribute_names(call.self) \subseteq DOMAIN call.mapping) =>
        /\ IsRelation(result)
        /\ cardinality(result) = cardinality(call.self)
        /\ \A back \in rename(result, Inverse(call.mapping)) :
               IsRelation(back) /\ Relation__eq__(back, call.self)

\* A relation of three attributes and two rows has been renamed by a
\* one-to-one mapping that moves every name, and the result differs from it.
C11_Witness ==
    /\ call.op = "rename"
    /\ Injective(call.mapping)
    /\ attribute_names(call.self) \subseteq DOMAIN call.mapping
    /\ \A n \in DOMAIN call.mapping : call.mapping[n] # n
    /\ order(call.self) = 3
    /\ cardinality(call.self) = 2
    /\ IsRelation(result)
    /\ ~Relation__eq__(result, call.self)
    /\ \E back \in rename(result, Inverse(call.mapping)) : Relation__eq__(back, call.self)

====
